---- MODULE Spec2Model ----
(***************************************************************************)
(* Speech-to-text fallback chain of ProxyAPINode (src/stt.js).             *)
(*                                                                         *)
(* One Node.js process runs any number of calls of the exported functions  *)
(* transcribeWithWhisperWithFallback, transcribeWithWhisper and            *)
(* transcribeWithVosk.  Every action below is one run-to-completion step   *)
(* of the event loop: the code between two awaits (or one stream event     *)
(* handler).  Answers of the outside world (HTTP responses, file reads,    *)
(* what the vosk binding returns or throws) are the actions' inputs.       *)
(*                                                                         *)
(* Text is a sequence of one-character strings; JSON values are records    *)
(* tagged by t: "undef", "null", "bool", "num", "str", "arr", "obj".       *)
(***************************************************************************)
EXTENDS Integers, Sequences, FiniteSets, TLC

\* ------------------------------------------------------------------ bounds
NCalls == 1      \* calls of any exported function, under Spec
NVoskCalls == 2  \* calls of transcribeWithVosk, under SpecVosk
MaxChunks == 1   \* chunks a read stream delivers before it ends
MaxPad == 1      \* blanks put before and after a sampled word, under SpecFn
NStreamCalls == 1     \* calls of transcribeWithVosk, under SpecStream
MaxStreamChunks == 2  \* chunks a read stream delivers, under SpecStream
NBatchCalls == 1      \* calls that reach the Remote Batch client, under SpecBatch
NJobCalls == 2        \* concurrent calls of transcribeWithWhisper, under SpecJobs
NClientCalls == 2     \* concurrent calls of getGradioClient, under SpecClient

\* ------------------------------------------------------------ text helpers
WS == {" ", "\t", "\n", "\r"}
Digits == {"0", "1", "2", "3", "4", "5", "6", "7", "8", "9"}

RECURSIVE TrimStart(_)
TrimStart(s) ==
  IF s # <<>> /\ Head(s) \in WS THEN TrimStart(Tail(s)) ELSE s

RECURSIVE TrimEnd(_)
TrimEnd(s) ==
  IF s # <<>> /\ s[Len(s)] \in WS THEN TrimEnd(SubSeq(s, 1, Len(s) - 1)) ELSE s

\* String.prototype.trim
Trim(s) == TrimEnd(TrimStart(s))

StartsWith(s, p) == Len(s) >= Len(p) /\ SubSeq(s, 1, Len(p)) = p

AllDigits(s) == \A i \in 1..Len(s) : s[i] \in Digits

\* number of leading digits of s
RECURSIVE DigitRun(_)
DigitRun(s) ==
  IF s # <<>> /\ Head(s) \in Digits THEN 1 + DigitRun(Tail(s)) ELSE 0

Drop(s, n) == SubSeq(s, n + 1, Len(s))

\* ------------------------------------------------------------- JSON values
Undef == [t |-> "undef"]
Null == [t |-> "null"]
Bool(b) == [t |-> "bool", b |-> b]
Num(n) == [t |-> "num", n |-> n]
Str(s) == [t |-> "str", s |-> s]
Arr(a) == [t |-> "arr", a |-> a]
Obj(o) == [t |-> "obj", o |-> o]

\* JavaScript truthiness
Truthy(v) ==
  CASE v.t \in {"undef", "null"} -> FALSE
    [] v.t = "bool" -> v.b
    [] v.t = "num" -> v.n # 0
    [] v.t = "str" -> v.s # <<>>
    [] OTHER -> TRUE

Nullish(v) == v.t \in {"undef", "null"}

\* property read v[name]; undefined when v has no such own property
Get(v, name) ==
  IF v.t = "obj" /\ name \in DOMAIN v.o THEN v.o[name] ELSE Undef

\* element read v[i] (JavaScript index i, from 0)
At(v, i) ==
  IF v.t = "arr" /\ i + 1 \in DOMAIN v.a THEN v.a[i + 1] ELSE Undef

IsArray(v) == v.t = "arr"
IsString(v) == v.t = "str"
\* typeof v === 'object' && v (arrays are objects)
IsObjectLike(v) == v.t \in {"obj", "arr"}

DigitChar(d) == CASE d = 0 -> "0" [] d = 1 -> "1" [] d = 2 -> "2" [] d = 3 -> "3"
                  [] d = 4 -> "4" [] d = 5 -> "5" [] d = 6 -> "6" [] d = 7 -> "7"
                  [] d = 8 -> "8" [] OTHER -> "9"

RECURSIVE NatToText(_)
NatToText(n) ==
  IF n < 10 THEN <<DigitChar(n)>> ELSE NatToText(n \div 10) \o <<DigitChar(n % 10)>>

ObjectObject ==
  <<"[", "o", "b", "j", "e", "c", "t", " ", "O", "b", "j", "e", "c", "t", "]">>

\* String(v)
RECURSIVE ToText(_)
RECURSIVE JoinComma(_)
ToText(v) ==
  CASE v.t = "str" -> v.s
    [] v.t = "undef" -> <<"u", "n", "d", "e", "f", "i", "n", "e", "d">>
    [] v.t = "null" -> <<"n", "u", "l", "l">>
    [] v.t = "bool" -> IF v.b THEN <<"t", "r", "u", "e">> ELSE <<"f", "a", "l", "s", "e">>
    [] v.t = "num" -> NatToText(v.n)
    [] v.t = "arr" -> JoinComma(v.a)
    [] OTHER -> ObjectObject
JoinComma(a) ==
  IF a = <<>> THEN <<>>
  ELSE (IF Nullish(Head(a)) THEN <<>> ELSE ToText(Head(a)))
       \o (IF Len(a) > 1 THEN <<",">> \o JoinComma(Tail(a)) ELSE <<>>)

\* ------------------------------------------------- pure functions of stt.js
Base == <<"b", "a", "s", "e">>

\* String.prototype.toLowerCase, on ASCII
LowerChar(ch) ==
  CASE ch = "A" -> "a" [] ch = "B" -> "b" [] ch = "C" -> "c" [] ch = "D" -> "d"
    [] ch = "E" -> "e" [] ch = "F" -> "f" [] ch = "G" -> "g" [] ch = "H" -> "h"
    [] ch = "I" -> "i" [] ch = "J" -> "j" [] ch = "K" -> "k" [] ch = "L" -> "l"
    [] ch = "M" -> "m" [] ch = "N" -> "n" [] ch = "O" -> "o" [] ch = "P" -> "p"
    [] ch = "Q" -> "q" [] ch = "R" -> "r" [] ch = "S" -> "s" [] ch = "T" -> "t"
    [] ch = "U" -> "u" [] ch = "V" -> "v" [] ch = "W" -> "w" [] ch = "X" -> "x"
    [] ch = "Y" -> "y" [] ch = "Z" -> "z"
    [] OTHER -> ch

ToLowerCase(s) == [i \in 1..Len(s) |-> LowerChar(s[i])]

\* normalizeWhisperModel(modelName), modelName a JSON value
normalizeWhisperModel(modelName) ==
  IF ~Truthy(modelName) THEN Base
  ELSE LET normalized == Trim(ToLowerCase(ToText(modelName)))
       IN  IF normalized = <<"m", "i", "d">> THEN <<"m", "e", "d", "i", "u", "m">>
           ELSE IF normalized = <<"l", "a", "r", "g", "e", "_", "v", "2">>
                   \/ normalized = <<"l", "a", "r", "g", "e", "v", "2">>
                THEN <<"l", "a", "r", "g", "e", "-", "v", "2">>
           ELSE normalized

\* a normalizeGradioDevice without toLowerCase
normalizeGradioDeviceCaseSensitive(device) ==
  LET raw == IF Truthy(device) THEN ToText(device) ELSE <<>>
  IN  IF raw = <<"g", "p", "u">> \/ raw = <<"c", "u", "d", "a">>
      THEN <<"c", "u", "d", "a">> ELSE <<"c", "p", "u">>

\* normalizeGradioDevice(device), device a JSON value
normalizeGradioDevice(device) ==
  LET raw == ToLowerCase(IF Truthy(device) THEN ToText(device) ELSE <<>>)
  IN  IF raw = <<"g", "p", "u">> \/ raw = <<"c", "u", "d", "a">>
      THEN <<"c", "u", "d", "a">> ELSE <<"c", "p", "u">>

\* fs.existsSync(p) / fs.readFileSync(p, 'utf8') against a file system
\* files: a function from the paths that exist to their contents
ExistsSync(files, p) == p \in DOMAIN files
ReadFileSync(files, p) == files[p]

\* extractWhisperText(result)
extractWhisperText(files, result) ==
  IF ~Truthy(result) THEN <<>>
  ELSE IF IsArray(result) THEN
    LET first == At(result, 0)
    IN  IF Truthy(first) /\ IsObjectLike(first) /\ IsString(Get(first, "text"))
        THEN Trim(Get(first, "text").s)
        ELSE Trim(IF Nullish(first) THEN <<>> ELSE ToText(first))
  ELSE IF Truthy(Get(result, "data")) /\ IsArray(Get(result, "data")) THEN
    LET d0 == At(Get(result, "data"), 0)
    IN  Trim(IF Nullish(d0) THEN <<>> ELSE ToText(d0))
  ELSE IF Truthy(Get(result, "data")) /\ Truthy(Get(Get(result, "data"), "data"))
          /\ IsArray(Get(Get(result, "data"), "data")) THEN
    LET d0 == At(Get(Get(result, "data"), "data"), 0)
    IN  Trim(IF Nullish(d0) THEN <<>> ELSE ToText(d0))
  ELSE IF IsString(result) THEN
    IF ExistsSync(files, result.s) THEN Trim(ReadFileSync(files, result.s))
    ELSE Trim(result.s)
  ELSE IF IsString(Get(result, "text")) THEN Trim(Get(result, "text").s)
  ELSE IF IsString(Get(result, "transcription")) THEN Trim(Get(result, "transcription").s)
  ELSE IF Truthy(Get(result, "data")) /\ IsString(Get(Get(result, "data"), "text"))
    THEN Trim(Get(Get(result, "data"), "text").s)
  ELSE IF IsString(Get(result, "outputPath")) /\ ExistsSync(files, Get(result, "outputPath").s)
    THEN Trim(ReadFileSync(files, Get(result, "outputPath").s))
  ELSE <<>>

\* cleaned.replace(/^\d{10,}-\d{6,}\s*/, '')
StripStampPrefix(s) ==
  LET n == DigitRun(s)
      r1 == Drop(s, n)
      m == IF r1 # <<>> /\ Head(r1) = "-" THEN DigitRun(Tail(r1)) ELSE 0
  IN  IF n >= 10 /\ r1 # <<>> /\ Head(r1) = "-" /\ m >= 6
      THEN TrimStart(Drop(r1, 1 + m))
      ELSE s

\* text.split(/\r?\n/)
RECURSIVE SplitLines(_, _)
SplitLines(cur, s) ==
  IF s = <<>> THEN <<cur>>
  ELSE IF Head(s) = "\n" THEN
    <<IF cur # <<>> /\ cur[Len(cur)] = "\r" THEN SubSeq(cur, 1, Len(cur) - 1) ELSE cur>>
      \o SplitLines(<<>>, Tail(s))
  ELSE SplitLines(Append(cur, Head(s)), Tail(s))

\* /^\d{2}:\d{2}:\d{2},\d{3}$/ on a 12-character slice
IsSrtTime(s) ==
  /\ Len(s) = 12
  /\ \A i \in {1, 2, 4, 5, 7, 8, 10, 11, 12} : s[i] \in Digits
  /\ s[3] = ":" /\ s[6] = ":" /\ s[9] = ","

\* /^\d{2}:\d{2}:\d{2},\d{3}\s-->\s\d{2}:\d{2}:\d{2},\d{3}$/
IsSrtRange(s) ==
  /\ Len(s) = 29
  /\ IsSrtTime(SubSeq(s, 1, 12))
  /\ s[13] \in WS /\ SubSeq(s, 14, 16) = <<"-", "-", ">">> /\ s[17] \in WS
  /\ IsSrtTime(SubSeq(s, 18, 29))

DoneIn == <<"D", "o", "n", "e", " ", "i", "n", " ">>
Separator == [i \in 1..36 |-> "-"]

\* the lines stripSrt keeps, each trimmed
RECURSIVE KeptLines(_)
KeptLines(lines) ==
  IF lines = <<>> THEN <<>>
  ELSE LET trimmed == Trim(Head(lines))
       IN  IF \/ trimmed = <<>>
              \/ AllDigits(trimmed)
              \/ IsSrtRange(trimmed)
              \/ StartsWith(trimmed, DoneIn)
              \/ trimmed = Separator
           THEN KeptLines(Tail(lines))
           ELSE <<trimmed>> \o KeptLines(Tail(lines))

\* output.join(' ')
RECURSIVE JoinSpace(_)
JoinSpace(out) ==
  IF out = <<>> THEN <<>>
  ELSE Head(out) \o (IF Len(out) > 1 THEN <<" ">> \o JoinSpace(Tail(out)) ELSE <<>>)

\* stripSrt(text), text a string
stripSrt(text) ==
  Trim(JoinSpace(KeptLines(SplitLines(<<>>, StripStampPrefix(Trim(text))))))

\* ------------------------------------------------ the job-submission payload
\* a || b and a ?? b
OrElse(a, b) == IF Truthy(a) THEN a ELSE b
Coalesce(a, b) == IF Nullish(a) THEN b ELSE a

\* a number literal with a fraction: n / d
Frac(n, d) == [t |-> "num", n |-> n, d |-> d]

GRADIO_FILE_META ==
  Obj("_type" :> Str(<<"g", "r", "a", "d", "i", "o", ".", "F", "i", "l", "e", "D", "a", "t", "a">>))

\* the array literal `data` of transcribeWithWhisper, element by element
WhisperData(uploadPath, modelName, device, options) ==
  <<Arr(<<Obj([path |-> uploadPath, meta |-> GRADIO_FILE_META])>>),
    Str(<<>>), Bool(FALSE), Bool(TRUE),
    OrElse(Get(options, "fileFormat"), Str(<<"t", "x", "t">>)),
    Bool(FALSE), modelName,
    OrElse(Get(options, "language"), Str(<<"A", "u", "t", "o", "m", "a", "t", "i", "c", " ", "D", "e", "t", "e", "c", "t", "i", "o", "n">>)),
    Bool(FALSE), Num(5), Num(-1), Frac(6, 10),
    OrElse(Get(options, "computeType"), Str(<<"f", "l", "o", "a", "t", "1", "6">>)),
    Num(5), Num(1), Bool(TRUE), Frac(5, 10),
    OrElse(Get(options, "initialPrompt"), Str(<<>>)),
    Num(0), Frac(24, 10), Num(1), Num(1), Num(0),
    OrElse(Get(options, "prefix"), Str(<<>>)),
    Bool(TRUE), Str(<<"[", "-", "1", "]">>), Num(1), Bool(FALSE),
    Str(<<"\"", "'", "(", "[", "{", "-">>),
    Str(<<"\"", "'", ".", "!", "?", ":", ")", "]", "}">>),
    Coalesce(Get(options, "maxNewTokens"), Num(3)),
    Num(30),
    Coalesce(Get(options, "hallucinationSilenceThreshold"), Num(3)),
    OrElse(Get(options, "hotwords"), Str(<<>>)),
    Frac(5, 10), Num(1), Num(24), Bool(TRUE), Bool(FALSE), Frac(5, 10),
    Num(250), Num(9999), Num(1000), Num(2000), Bool(FALSE), device,
    Str(<<>>), Bool(TRUE), Bool(FALSE),
    Str(<<"U", "V", "R", "-", "M", "D", "X", "-", "N", "E", "T", "-", "I", "n", "s", "t", "_", "H", "Q", "_", "4">>),
    device, Num(256), Bool(FALSE), Bool(TRUE)>>

\* transcribeWithWhisper from apiUrl's test to the array literal: the model
\* and device are chosen from the options, then the configuration, then the
\* default, and normalized
TranscribeData(options, config, uploadPath) ==
  WhisperData(uploadPath,
              Str(normalizeWhisperModel(
                    OrElse(OrElse(Get(options, "model"), Get(config, "whisperModel")),
                           Str(Base)))),
              Str(normalizeGradioDevice(
                    OrElse(OrElse(Get(options, "device"), Get(config, "whisperDevice")),
                           Str(<<"c", "p", "u">>)))),
              options)

\* ------------------------------------------------------- what the world says
Hello == <<"h", "e", "l", "l", "o">>
Ok == <<"o", "k">>
Blank == <<" ">>
PaddedOk == <<" ", "o", "k", " ">>
Hi == <<"h", "i">>
Final == <<"f", "i", "n", "a", "l">>
OutUrl == <<"u">>
OutPath == <<"f">>

\* the file system extractWhisperText looks at: of the sampled strings,
\* OutPath alone names a file
Files == [p \in {OutPath} |-> PaddedOk]

\* An HTTP exchange: the fetch rejects ("neterr"), answers non-2xx ("non2xx"),
\* answers 2xx with a body that is not JSON (json = FALSE) or with JSON body.
NetErr == [st |-> "neterr"]
Non2xx == [st |-> "non2xx"]
BadJson == [st |-> "ok", json |-> FALSE]
Json(body) == [st |-> "ok", json |-> TRUE, body |-> body]

PrimaryResponses ==
  {NetErr, Non2xx, BadJson, Json(Null), Json(Obj([other |-> Str(Ok)])),
   Json(Obj([text |-> Str(Hello)])), Json(Obj([text |-> Str(PaddedOk)])),
   Json(Obj([text |-> Str(<<>>), transcript |-> Str(Ok)])),
   Json(Obj([text |-> Str(Blank)])),
   Json(Obj([transcript |-> Str(Ok)])), Json(Obj([transcription |-> Str(Hello)]))}

Tokens == {Str(<<"a">>), Str(<<"b">>)}
UploadResponses ==
  {NetErr, Non2xx, BadJson, Json(Obj([path |-> Str(<<"a">>)])), Json(Arr(<<>>)),
   Json(Arr(<<Str(<<>>)>>))} \cup {Json(Arr(<<t>>)) : t \in Tokens}

EventIds == {Num(1), Num(2)}
CallResponses ==
  {NetErr, Non2xx, BadJson, Json(Null), Json(Obj([status |-> Str(Ok)])),
   Json(Obj([event_id |-> Num(1)])), Json(Obj([event_id |-> Num(0), eventId |-> Num(2)])),
   Json(Obj([id |-> Num(2)]))}

\* One line of the event stream, after trim and filter(Boolean): data says
\* whether it starts with "data:"; json whether JSON.parse accepts what
\* follows the prefix; val is the parsed value, or the raw text as a string.
Line(data, json, val) == [data |-> data, json |-> json, val |-> val]
Payloads ==
  {Str(<<>>), Str(Hello), Str(PaddedOk), Str(OutPath), Null,
   Arr(<<Num(2), Arr(<<Str(Hello)>>)>>),
   Arr(<<Obj([text |-> Str(PaddedOk)])>>),
   Arr(<<Str(Ok), Arr(<<Obj([url |-> Str(OutUrl)])>>)>>),
   Arr(<<Str(Ok), Arr(<<Obj([url |-> Str(OutUrl)])>>), Null>>),
   Arr(<<Str(Hello), Arr(<<Obj([url |-> Str(<<>>)])>>)>>),
   Obj([data |-> Arr(<<Str(Hello)>>)])}
EventBodies ==
  {<<>>, <<Line(FALSE, FALSE, Str(Ok))>>}
    \cup {<<Line(TRUE, TRUE, Str(Ok)), Line(FALSE, FALSE, Str(Ok)), Line(TRUE, TRUE, v)>> :
            v \in Payloads}
    \cup {<<Line(TRUE, FALSE, Str(Hello))>>, <<Line(TRUE, FALSE, Str(<<>>))>>}
    \cup {<<Line(TRUE, TRUE, Arr(<<Num(1), Arr(<<Str(Hi)>>)>>)),
             Line(TRUE, TRUE, Arr(<<Num(2), Arr(<<Str(Final)>>)>>))>>,
           <<Line(TRUE, TRUE, Arr(<<Num(2), Arr(<<Str(Final)>>)>>))>>}
PollResponses == {NetErr, Non2xx} \cup {[st |-> "ok", lines |-> b] : b \in EventBodies}

OutputTexts == {<<>>, Hello, <<"1", "\n", "o", "k", "\n">>}
OutputResponses == {NetErr, Non2xx} \cup {[st |-> "ok", text |-> t] : t \in OutputTexts}

\* what rec.finalResult() does: throws, or returns a value
FinalResults ==
  {[throws |-> TRUE],
   [throws |-> FALSE, val |-> Null],
   [throws |-> FALSE, val |-> Obj([alternatives |-> Arr(<<>>)])],
   [throws |-> FALSE, val |-> Obj([alternatives |-> Arr(<<Obj([text |-> Str(Hello)])>>)])],
   [throws |-> FALSE, val |-> Obj([alternatives |-> Arr(<<Obj([text |-> Str(PaddedOk)])>>)])],
   [throws |-> FALSE, val |-> Obj([alternatives |-> Arr(<<Obj([text |-> Str(Blank)])>>)])],
   [throws |-> FALSE, val |-> Obj([alternatives |-> Arr(<<Obj([text |-> Num(7)])>>)])]}

\* ------------------------------------------------------------------- state
VARIABLES
  calls,        \* per call: the record described at NewCall
  model,        \* `let model`: 0 is null, n > 0 the n-th vosk.Model built
  modelsBuilt,  \* how many vosk.Model instances the process has built
  exited,       \* the process has ended (process.exit, uncaught exception)
  env,          \* config.whisperApiUrl is set (apiUrl), MODEL_PATH exists
                \* (modelDir): fixed for the process's life
  gradio,       \* the older client-library variant's module state:
                \* `let gradioModulePromise`, `let gradioClientPromise`, and
                \* the promises connect has returned
  applied       \* the last synchronous function applied on its own: its name
                \* (fn), its argument (arg) and what it returned (out)

vars == <<calls, model, modelsBuilt, exited, env, gradio, applied>>

Pending == [kind |-> "pending"]
Resolved(v) == [kind |-> "resolved", val |-> v]
Rejected(e) == [kind |-> "rejected", err |-> e]

NewCall ==
  [pc |-> "idle",       \* where the call is suspended
   entry |-> "none",    \* the exported function that was called
   attempts |-> <<>>,   \* the backends begun, in order
   running |-> {},      \* the backends begun and not yet settled
   bres |-> <<>>,       \* how each begun backend settled, in order
   outcome |-> Pending, \* how the call's promise settled
   io |-> <<>>,         \* file and network operations issued, in order
   answers |-> <<>>,    \* per answered request of the batch protocol: it came
                        \* back 2xx with the field the next step needs
   tok |-> Undef,       \* uploadPath
   eid |-> Undef,       \* eventId
   sess |-> "none",     \* rec: none, open, freed
   smodel |-> 0,        \* the model voskLoader() returned to this call
   frees |-> 0,         \* calls of rec.free()
   chunks |-> 0,        \* chunks handed to rec.acceptWaveform
   fed |-> <<>>,        \* the operations on rec, in order: acceptWaveform of
                        \* the n-th chunk the stream delivered, finalResult, free
   hooked |-> FALSE,    \* this call invoked process.exit
   news |-> 0,          \* `new vosk.Model` evaluated by this call (after the hook)
   dropped |-> FALSE]   \* an exception left the data handler uncaught

Io(op, arg) == [op |-> op, arg |-> arg]

\* ------------------------------------------------- the orchestrator's chain
\* a chain that tries Offline second and Remote Batch last
FallbackAfterSwapped(b) ==
  CASE b = "primary" -> "vosk"
    [] b = "vosk" -> "batch"
    [] OTHER -> "none"

\* a chain without the inner try/catch: Remote Batch's error is the call's
FallbackAfterNoInnerCatch(b) ==
  CASE b = "primary" -> "batch"
    [] OTHER -> "none"

\* transcribeWithWhisperWithFallback: the backend tried after backend b has
\* thrown; "none" when b's error is the call's error
FallbackAfter(b) ==
  CASE b = "primary" -> "batch"
    [] b = "batch" -> "vosk"
    [] OTHER -> "none"

\* the backend an exported function begins with
FirstBackend(entry) ==
  CASE entry = "fallback" -> "primary"
    [] entry = "whisper" -> "batch"
    [] OTHER -> "vosk"

StartPc(b) ==
  CASE b = "primary" -> "pStart" [] b = "batch" -> "bStart" [] OTHER -> "vStart"

\* backend b of call record r is entered
Begin(r, b) == [r EXCEPT !.attempts = Append(@, b), !.running = @ \cup {b}]

\* backend b threw e: the enclosing catch begins the next backend, or, with
\* no catch around it, the call rejects with e
BackendThrows(r, b, e) ==
  LET nxt == IF r.entry = "fallback" THEN FallbackAfter(b) ELSE "none"
  IN  [r EXCEPT !.running = @ \ {b},
                !.bres = Append(@, [b |-> b, ok |-> FALSE]),
                !.outcome = IF nxt = "none" THEN Rejected(e) ELSE @,
                !.pc = IF nxt = "none" THEN "done" ELSE StartPc(nxt)]

\* an orchestrator that hands the value on and still walks the chain
BackendResolvesAndGoesOn(r, b, v) ==
  LET nxt == IF r.entry = "fallback" THEN FallbackAfter(b) ELSE "none"
  IN  [r EXCEPT !.running = @ \ {b},
                !.bres = Append(@, [b |-> b, ok |-> TRUE, val |-> v]),
                !.outcome = Resolved(v),
                !.pc = IF nxt = "none" THEN "done" ELSE StartPc(nxt)]

\* an orchestrator that goes on to the next backend after an empty result
BackendResolvesNonEmpty(r, b, v) ==
  LET nxt == FallbackAfter(b)
  IN  IF r.entry = "fallback" /\ ~Truthy(v)
      THEN [r EXCEPT !.running = @ \ {b},
                     !.bres = Append(@, [b |-> b, ok |-> TRUE, val |-> v]),
                     !.outcome = IF nxt = "none" THEN Rejected("empty") ELSE @,
                     !.pc = IF nxt = "none" THEN "done" ELSE StartPc(nxt)]
      ELSE [r EXCEPT !.running = @ \ {b},
                     !.bres = Append(@, [b |-> b, ok |-> TRUE, val |-> v]),
                     !.outcome = Resolved(v),
                     !.pc = "done"]

\* `return await backend(...)`: backend b fulfilled with v
BackendResolves(r, b, v) ==
  [r EXCEPT !.running = @ \ {b},
            !.bres = Append(@, [b |-> b, ok |-> TRUE, val |-> v]),
            !.outcome = Resolved(v),
            !.pc = "done"]

\* the answer to a request of the batch protocol is noted
Heard(r, good) == [r EXCEPT !.answers = Append(@, good)]

Emit(r, op, arg) == [r EXCEPT !.io = Append(@, Io(op, arg))]

Put(c, r) == calls' = [calls EXCEPT ![c] = r]
Globals == <<model, modelsBuilt, exited, env, gradio, applied>>

\* the client library's module state when the module has just been
\* evaluated: both promises are null and connect has not been called
GradioNull == [gradioModulePromise |-> "null", gradioClientPromise |-> 0, clients |-> <<>>]

\* no function has been applied on its own
NotApplied == [fn |-> "none"]

\* ----------------------------------------------------------------- actions
InitWith(n) ==
  /\ calls = [c \in 1..n |-> NewCall]
  /\ model = 0
  /\ modelsBuilt = 0
  /\ exited = FALSE
  /\ env \in [apiUrl : BOOLEAN, modelDir : BOOLEAN]
  /\ gradio = GradioNull
  /\ applied = NotApplied

Init == InitWith(NCalls)

\* an exported function is called
Start(c, entry) ==
  /\ ~exited /\ calls[c].pc = "idle"
  /\ Put(c, [calls[c] EXCEPT !.entry = entry, !.pc = StartPc(FirstBackend(entry))])
  /\ UNCHANGED Globals

\* transcribeWithWhisperPrimary up to `await fetch(url, ...)`
PrimaryStart(c) ==
  /\ ~exited /\ calls[c].pc = "pStart"
  /\ Put(c, [Emit(Emit(Begin(calls[c], "primary"), "createReadStream", Undef),
                  "primary", Undef) EXCEPT !.pc = "pFetch"])
  /\ UNCHANGED Globals

\* result?.text ?? result?.transcript ?? result?.transcription
PrimaryText(result) ==
  IF ~Nullish(Get(result, "text")) THEN Get(result, "text")
  ELSE IF ~Nullish(Get(result, "transcript")) THEN Get(result, "transcript")
  ELSE Get(result, "transcription")

\* transcribeWithWhisperPrimary from the response on
PrimaryRest(r, resp) ==
  IF resp.st = "neterr" THEN BackendThrows(r, "primary", "primaryFetch")
  ELSE IF resp.st = "non2xx" THEN BackendThrows(r, "primary", "primaryHttp")
  ELSE IF ~resp.json THEN BackendThrows(r, "primary", "primaryJson")
  ELSE IF ~Truthy(PrimaryText(resp.body)) THEN BackendThrows(r, "primary", "primaryNoText")
  ELSE BackendResolves(r, "primary", Str(Trim(ToText(PrimaryText(resp.body)))))

PrimaryResponse(c, resp) ==
  /\ ~exited /\ calls[c].pc = "pFetch"
  /\ Put(c, PrimaryRest(calls[c], resp))
  /\ UNCHANGED Globals

\* a transcribeWithWhisper that does not look at apiUrl before it uploads
WhisperStartUnchecked(r, apiUrl) ==
  [Emit(Begin(r, "batch"), "readFile", Undef) EXCEPT !.pc = "bRead"]

\* transcribeWithWhisper up to `await fs.promises.readFile` in uploadToGradio
WhisperStart(r, apiUrl) ==
  IF ~apiUrl THEN BackendThrows(Begin(r, "batch"), "batch", "config")
  ELSE [Emit(Begin(r, "batch"), "readFile", Undef) EXCEPT !.pc = "bRead"]

BatchStart(c) ==
  /\ ~exited /\ calls[c].pc = "bStart"
  /\ Put(c, WhisperStart(calls[c], env.apiUrl))
  /\ UNCHANGED Globals

\* uploadToGradio from the file's bytes to `await fetch(uploadUrl, ...)`
BatchFileRead(c, ok) ==
  /\ ~exited /\ calls[c].pc = "bRead"
  /\ Put(c, IF ok THEN [Emit(calls[c], "upload", Undef) EXCEPT !.pc = "bUpload"]
            ELSE BackendThrows(calls[c], "batch", "readFile"))
  /\ UNCHANGED Globals

\* an uploadToGradio without the `!response.ok` test
UploadRestAnyStatus(r, resp) ==
  IF resp.st = "neterr" THEN BackendThrows(r, "batch", "uploadFetch")
  ELSE IF resp.st = "non2xx"
    THEN [Emit(r, "call", Str(<<"a">>)) EXCEPT !.tok = Str(<<"a">>), !.pc = "bCall"]
  ELSE IF ~resp.json THEN BackendThrows(r, "batch", "uploadJson")
  ELSE IF ~IsArray(resp.body) \/ ~Truthy(At(resp.body, 0))
    THEN BackendThrows(r, "batch", "uploadNoPath")
  ELSE [Emit(r, "call", At(resp.body, 0)) EXCEPT !.tok = At(resp.body, 0), !.pc = "bCall"]

\* a client that keeps uploadPath in one slot of the module, filled by the
\* first upload that returns a path: every later call submits that path
UploadRestSharedPath(r, resp) ==
  LET holders == {d \in DOMAIN calls : calls[d].tok # Undef}
      path == IF holders = {} THEN At(resp.body, 0)
              ELSE calls[CHOOSE d \in holders : TRUE].tok
  IN  IF resp.st = "neterr" THEN BackendThrows(r, "batch", "uploadFetch")
      ELSE IF resp.st = "non2xx" THEN BackendThrows(r, "batch", "uploadHttp")
      ELSE IF ~resp.json THEN BackendThrows(r, "batch", "uploadJson")
      ELSE IF ~IsArray(resp.body) \/ ~Truthy(At(resp.body, 0))
        THEN BackendThrows(r, "batch", "uploadNoPath")
      ELSE [Emit(r, "call", path) EXCEPT !.tok = path, !.pc = "bCall"]

\* uploadToGradio from the response on, then transcribeWithWhisper and
\* callGradio up to `await fetch(callUrl, ...)`
UploadRest(r, resp) ==
  IF resp.st = "neterr" THEN BackendThrows(r, "batch", "uploadFetch")
  ELSE IF resp.st = "non2xx" THEN BackendThrows(r, "batch", "uploadHttp")
  ELSE IF ~resp.json THEN BackendThrows(r, "batch", "uploadJson")
  ELSE IF ~IsArray(resp.body) \/ ~Truthy(At(resp.body, 0))
    THEN BackendThrows(r, "batch", "uploadNoPath")
  ELSE [Emit(r, "call", At(resp.body, 0)) EXCEPT !.tok = At(resp.body, 0), !.pc = "bCall"]

\* the upload came back 2xx with a path token
GoodUpload(resp) ==
  resp.st = "ok" /\ resp.json /\ resp.body.t = "arr" /\ resp.body.a # <<>>
  /\ resp.body.a[1] \in Tokens

BatchUploadResponse(c, resp) ==
  /\ ~exited /\ calls[c].pc = "bUpload"
  /\ Put(c, UploadRest(Heard(calls[c], GoodUpload(resp)), resp))
  /\ UNCHANGED Globals

\* result.event_id || result.eventId || result.id
EventIdOf(result) ==
  IF Truthy(Get(result, "event_id")) THEN Get(result, "event_id")
  ELSE IF Truthy(Get(result, "eventId")) THEN Get(result, "eventId")
  ELSE Get(result, "id")

\* callGradio from the call response to `await fetch(eventUrl)`
CallRest(r, resp) ==
  IF resp.st = "neterr" THEN BackendThrows(r, "batch", "callFetch")
  ELSE IF resp.st = "non2xx" THEN BackendThrows(r, "batch", "callHttp")
  ELSE IF ~resp.json THEN BackendThrows(r, "batch", "callJson")
  ELSE IF Nullish(resp.body) THEN BackendThrows(r, "batch", "callTypeError")
  ELSE IF ~Truthy(EventIdOf(resp.body)) THEN BackendThrows(r, "batch", "callNoEvent")
  ELSE [Emit(r, "poll", EventIdOf(resp.body)) EXCEPT !.eid = EventIdOf(resp.body),
                                                    !.pc = "bPoll"]

\* the job submission came back 2xx with an event id
GoodCall(resp) ==
  resp.st = "ok" /\ resp.json /\ resp.body.t = "obj"
  /\ \E f \in DOMAIN resp.body.o : resp.body.o[f] \in EventIds

BatchCallResponse(c, resp) ==
  /\ ~exited /\ calls[c].pc = "bCall"
  /\ Put(c, CallRest(Heard(calls[c], GoodCall(resp)), resp))
  /\ UNCHANGED Globals

\* lines.filter((line) => line.startsWith('data:'))
DataLines(lines) == SelectSeq(lines, LAMBDA l : l.data)

\* JSON.parse(lastData), or lastData itself when that throws
LastPayload(lines) == DataLines(lines)[Len(DataLines(lines))].val

\* an extractWhisperTextFromResult that looks for the url in result[0]
HasOutputUrlInFirst(result) ==
  /\ IsArray(result) /\ IsArray(At(result, 0))
  /\ Truthy(At(At(result, 0), 0)) /\ Truthy(Get(At(At(result, 0), 0), "url"))

\* result[1][0].url, when extractWhisperTextFromResult fetches it
HasOutputUrl(result) ==
  /\ IsArray(result) /\ IsArray(At(result, 1))
  /\ Truthy(At(At(result, 1), 0)) /\ Truthy(Get(At(At(result, 1), 0), "url"))

\* callGradio from the event response on, then extractWhisperTextFromResult
PollRest(r, resp, files) ==
  IF resp.st = "neterr" THEN BackendThrows(r, "batch", "eventFetch")
  ELSE IF resp.st = "non2xx" THEN BackendThrows(r, "batch", "eventHttp")
  ELSE IF DataLines(resp.lines) = <<>> THEN BackendThrows(r, "batch", "eventNoData")
  ELSE LET result == LastPayload(resp.lines)
       IN  IF HasOutputUrl(result)
           THEN [Emit(r, "fetchOutput", Get(At(At(result, 1), 0), "url")) EXCEPT !.pc = "bOut"]
           ELSE BackendResolves(r, "batch", Str(stripSrt(extractWhisperText(files, result))))

\* the event poll came back 2xx with a data line
GoodPoll(resp) == resp.st = "ok" /\ \E i \in DOMAIN resp.lines : resp.lines[i].data

BatchPollResponse(c, resp) ==
  /\ ~exited /\ calls[c].pc = "bPoll"
  /\ Put(c, PollRest(Heard(calls[c], GoodPoll(resp)), resp, Files))
  /\ UNCHANGED Globals

\* extractWhisperTextFromResult from the output file's response on
OutputRest(r, resp) ==
  IF resp.st = "neterr" THEN BackendThrows(r, "batch", "outputFetch")
  ELSE IF resp.st = "non2xx" THEN BackendThrows(r, "batch", "outputHttp")
  ELSE BackendResolves(r, "batch", Str(stripSrt(resp.text)))

BatchOutputResponse(c, resp) ==
  /\ ~exited /\ calls[c].pc = "bOut"
  /\ Put(c, OutputRest(calls[c], resp))
  /\ UNCHANGED Globals

\* a voskLoader that never finds the model cached
ModelCachedNever(m) == FALSE

\* voskLoader: `if (model !== null) return model`
ModelCached(m) == m # 0

\* an operation on rec, kept as a number: acceptWaveform of the n-th chunk the
\* stream delivered is n, finalResult is 0, free is -1
SessionOp(op, n) == CASE op = "accept" -> n [] op = "final" -> 0 [] OTHER -> -1

\* the operation a number of the log stands for
OpOf(x) == IF x > 0 THEN "accept" ELSE IF x = 0 THEN "final" ELSE "free"

\* rec.free()
Free(r) ==
  [r EXCEPT !.frees = @ + 1, !.sess = "freed", !.fed = Append(@, SessionOp("free", 0))]

\* rec.acceptWaveform(chunk), chunk the one the stream has just delivered
Accept(r) ==
  [r EXCEPT !.chunks = @ + 1, !.fed = Append(@, SessionOp("accept", r.chunks + 1))]

\* rec.finalResult()
FinalResult(r) == [r EXCEPT !.fed = Append(@, SessionOp("final", 0))]

\* transcribeWithVosk up to `await voskLoader()`, with voskLoader's body,
\* which holds no await and so runs in the caller's step.  built says whether
\* `new vosk.Model(MODEL_PATH)` returns a model or throws.  process.exit ends
\* the process (exit = "ends"), unless a test has replaced it by a hook that
\* returns (exit = "returns"): the statements after it then run.
VoskStart(c, built, exit) ==
  /\ ~exited /\ calls[c].pc = "vStart"
  /\ LET r0 == Emit(Begin(calls[c], "vosk"), "createReadStream", Undef)
         r1 == [r0 EXCEPT !.hooked = ~env.modelDir]
     IN  IF ModelCached(model)
         THEN /\ Put(c, [r0 EXCEPT !.smodel = model, !.pc = "vLoaded"])
              /\ UNCHANGED Globals
         ELSE IF ~env.modelDir /\ exit = "ends"
         THEN /\ Put(c, [r1 EXCEPT !.pc = "vExit"])
              /\ exited' = TRUE
              /\ UNCHANGED <<model, modelsBuilt, env, gradio, applied>>
         ELSE IF built
         THEN /\ Put(c, [r1 EXCEPT !.news = @ + 1, !.smodel = modelsBuilt + 1,
                                   !.pc = "vLoaded"])
              /\ model' = modelsBuilt + 1
              /\ modelsBuilt' = modelsBuilt + 1
              /\ UNCHANGED <<exited, env, gradio, applied>>
         ELSE /\ Put(c, BackendThrows([r1 EXCEPT !.news = @ + 1], "vosk", "modelLoad"))
              /\ UNCHANGED Globals

\* transcribeWithVosk from the loaded model to the end of the executor:
\* new vosk.Recognizer (made says whether it returns or throws), the two
\* setters, and the three wfReader.on(...) registrations
VoskRecognizer(c, made) ==
  /\ ~exited /\ calls[c].pc = "vLoaded"
  /\ Put(c, IF made THEN [calls[c] EXCEPT !.sess = "open", !.pc = "vStream"]
            ELSE BackendThrows(calls[c], "vosk", "recognizer"))
  /\ UNCHANGED Globals

\* wfReader.on("data", chunk => rec.acceptWaveform(chunk)).  When
\* acceptWaveform throws, the exception leaves the handler: no catch of
\* transcribeWithVosk is on the stack of a stream event.  What the runtime
\* then does is not this code's choice: it ends the process ("crash"), or an
\* uncaughtException handler keeps it alive and the stream either delivers
\* nothing more ("stall") or goes on ("flow").
StreamDataUpTo(c, accepted, after, max) ==
  /\ ~exited /\ calls[c].pc = "vStream" /\ calls[c].chunks < max
  /\ LET r == Accept(calls[c])
     IN  IF accepted
         THEN Put(c, r) /\ UNCHANGED Globals
         ELSE /\ Put(c, [r EXCEPT !.dropped = TRUE,
                                  !.pc = IF after = "flow" THEN "vStream" ELSE "vStalled"])
              /\ exited' = (after = "crash")
              /\ UNCHANGED <<model, modelsBuilt, env, gradio, applied>>

StreamData(c, accepted, after) == StreamDataUpTo(c, accepted, after, MaxChunks)

\* finalResult?.alternatives?.[0]?.text
BestText(finalResult) == Get(At(Get(finalResult, "alternatives"), 0), "text")

\* an end handler that releases the session before it asks for the result
EndRestFreeFirst(r, final) ==
  IF final.throws THEN BackendThrows(Free(FinalResult(Free(r))), "vosk", "decode")
  ELSE LET t == BestText(final.val)
       IN  IF ~Nullish(t) /\ ~IsString(t)
           THEN BackendThrows(Free(FinalResult(Free(r))), "vosk", "typeError")
           ELSE LET text == IF Nullish(t) THEN <<>> ELSE Trim(t.s)
                IN  IF text # <<>>
                    THEN BackendResolves(FinalResult(Free(r)), "vosk", Str(text))
                    ELSE BackendResolves(FinalResult(Free(r)), "vosk", Bool(FALSE))

\* wfReader.on("end", ...): final is what rec.finalResult() does
EndRest(r, final) ==
  IF final.throws THEN BackendThrows(Free(FinalResult(r)), "vosk", "decode")
  ELSE LET t == BestText(final.val)
       IN  IF ~Nullish(t) /\ ~IsString(t)
           THEN \* .trim is not a function: the catch frees again
                BackendThrows(Free(Free(FinalResult(r))), "vosk", "typeError")
           ELSE LET text == IF Nullish(t) THEN <<>> ELSE Trim(t.s)
                IN  IF text # <<>>
                    THEN BackendResolves(Free(FinalResult(r)), "vosk", Str(text))
                    ELSE BackendResolves(Free(FinalResult(r)), "vosk", Bool(FALSE))

StreamEnd(c, final) ==
  /\ ~exited /\ calls[c].pc = "vStream"
  /\ Put(c, EndRest(calls[c], final))
  /\ UNCHANGED Globals

\* wfReader.on("error", ...)
StreamError(c) ==
  /\ ~exited /\ calls[c].pc = "vStream"
  /\ Put(c, BackendThrows(Free(calls[c]), "vosk", "stream"))
  /\ UNCHANGED Globals

Next ==
  \E c \in 1..NCalls :
    \/ \E entry \in {"fallback", "whisper", "vosk"} : Start(c, entry)
    \/ PrimaryStart(c)
    \/ \E resp \in PrimaryResponses : PrimaryResponse(c, resp)
    \/ BatchStart(c)
    \/ \E ok \in BOOLEAN : BatchFileRead(c, ok)
    \/ \E resp \in UploadResponses : BatchUploadResponse(c, resp)
    \/ \E resp \in CallResponses : BatchCallResponse(c, resp)
    \/ \E resp \in PollResponses : BatchPollResponse(c, resp)
    \/ \E resp \in OutputResponses : BatchOutputResponse(c, resp)
    \/ \E built \in BOOLEAN, exit \in {"ends", "returns"} : VoskStart(c, built, exit)
    \/ \E made \in BOOLEAN : VoskRecognizer(c, made)
    \/ \E accepted \in BOOLEAN, after \in {"crash", "stall", "flow"} :
         StreamData(c, accepted, after)
    \/ \E final \in FinalResults : StreamEnd(c, final)
    \/ StreamError(c)

Spec == Init /\ [][Next]_vars

\* the offline adapter alone: concurrent calls of transcribeWithVosk
InitVosk == InitWith(NVoskCalls)

NextVosk ==
  \E c \in 1..NVoskCalls :
    \/ Start(c, "vosk")
    \/ \E built \in BOOLEAN, exit \in {"ends", "returns"} : VoskStart(c, built, exit)
    \/ \E made \in BOOLEAN : VoskRecognizer(c, made)
    \/ \E accepted \in BOOLEAN, after \in {"crash", "stall", "flow"} :
         StreamData(c, accepted, after)
    \/ \E final \in FinalResults : StreamEnd(c, final)
    \/ StreamError(c)

SpecVosk == InitVosk /\ [][NextVosk]_vars

\* the Primary and Remote Batch clients: calls of transcribeWithWhisper and of
\* the orchestrator, up to the entry of transcribeWithVosk
InitBatch == InitWith(NBatchCalls)

NextBatch ==
  \E c \in 1..NBatchCalls :
    \/ \E entry \in {"fallback", "whisper"} : Start(c, entry)
    \/ PrimaryStart(c)
    \/ \E resp \in PrimaryResponses : PrimaryResponse(c, resp)
    \/ BatchStart(c)
    \/ \E ok \in BOOLEAN : BatchFileRead(c, ok)
    \/ \E resp \in UploadResponses : BatchUploadResponse(c, resp)
    \/ \E resp \in CallResponses : BatchCallResponse(c, resp)
    \/ \E resp \in PollResponses : BatchPollResponse(c, resp)
    \/ \E resp \in OutputResponses : BatchOutputResponse(c, resp)

SpecBatch == InitBatch /\ [][NextBatch]_vars

\* concurrent calls of transcribeWithWhisper, from the call to the request
\* that polls the job's events
InitJobs == InitWith(NJobCalls)

NextJobs ==
  \E c \in 1..NJobCalls :
    \/ Start(c, "whisper")
    \/ BatchStart(c)
    \/ \E ok \in BOOLEAN : BatchFileRead(c, ok)
    \/ \E resp \in UploadResponses : BatchUploadResponse(c, resp)
    \/ \E resp \in CallResponses : BatchCallResponse(c, resp)

SpecJobs == InitJobs /\ [][NextJobs]_vars

\* ------------------------------- the older variant's client-library client
\* a call of the older transcribeWithWhisper, up to `await getGradioClient()`:
\* got is the promise getGradioClient returned, 0 when it has returned none
NewClientCall == [pc |-> "idle", got |-> 0, outcome |-> Pending]

InitClient ==
  /\ calls = [c \in 1..NClientCalls |-> NewClientCall]
  /\ model = 0
  /\ modelsBuilt = 0
  /\ exited = FALSE
  /\ env \in [apiUrl : BOOLEAN, modelDir : {TRUE}]
  /\ gradio = GradioNull
  /\ applied = NotApplied

Others == <<model, modelsBuilt, exited, env, applied>>

\* getGradioClient up to `await loadGradioModule()`, with loadGradioModule's
\* body, which holds no await
GetGradioClient(c) ==
  /\ calls[c].pc = "idle"
  /\ IF gradio.gradioClientPromise # 0
     THEN /\ Put(c, [calls[c] EXCEPT !.got = gradio.gradioClientPromise, !.pc = "gWait"])
          /\ UNCHANGED gradio
     ELSE IF ~env.apiUrl
     THEN /\ Put(c, [calls[c] EXCEPT !.outcome = Rejected("config"), !.pc = "done"])
          /\ UNCHANGED gradio
     ELSE /\ Put(c, [calls[c] EXCEPT !.pc = "gLoad"])
          /\ gradio' = [gradio EXCEPT !.gradioModulePromise =
                                        IF @ = "null" THEN "pending" ELSE @]
  /\ UNCHANGED Others

\* import('@gradio/client') settles: it rejects ("failed"), or fulfils with a
\* module that has Client.connect ("connect"), whose client is a function
\* ("function"), or that has neither ("unsupported")
ImportSettles(shape) ==
  /\ gradio.gradioModulePromise = "pending"
  /\ gradio' = [gradio EXCEPT !.gradioModulePromise = shape]
  /\ UNCHANGED <<calls, model, modelsBuilt, exited, env, applied>>

\* getGradioClient from the module on: connect is invoked and the promise
\* it returns is stored and returned
GetGradioClientResume(c) ==
  /\ calls[c].pc = "gLoad"
  /\ gradio.gradioModulePromise \notin {"null", "pending"}
  /\ IF gradio.gradioModulePromise = "failed"
     THEN /\ Put(c, [calls[c] EXCEPT !.outcome = Rejected("import"), !.pc = "done"])
          /\ UNCHANGED gradio
     ELSE IF gradio.gradioModulePromise = "unsupported"
     THEN /\ Put(c, [calls[c] EXCEPT !.outcome = Rejected("unsupported"), !.pc = "done"])
          /\ UNCHANGED gradio
     ELSE /\ Put(c, [calls[c] EXCEPT !.got = Len(gradio.clients) + 1, !.pc = "gWait"])
          /\ gradio' = [gradio EXCEPT !.clients = Append(@, "pending"),
                                      !.gradioClientPromise = Len(gradio.clients) + 1]
  /\ UNCHANGED Others

\* the n-th promise connect returned settles
ConnectSettles(n, ok) ==
  /\ n \in DOMAIN gradio.clients /\ gradio.clients[n] = "pending"
  /\ gradio' = [gradio EXCEPT !.clients[n] = IF ok THEN "ready" ELSE "failed"]
  /\ UNCHANGED <<calls, model, modelsBuilt, exited, env, applied>>

\* `const client = await getGradioClient()`: the caller has the client of
\* the promise it was given, or that promise's error
ClientAwaited(c) ==
  /\ calls[c].pc = "gWait" /\ gradio.clients[calls[c].got] # "pending"
  /\ Put(c, [calls[c] EXCEPT !.pc = "done",
                             !.outcome = IF gradio.clients[calls[c].got] = "ready"
                                         THEN Resolved(calls[c].got)
                                         ELSE Rejected("connect")])
  /\ UNCHANGED Globals

NextClient ==
  \/ \E c \in 1..NClientCalls :
       \/ GetGradioClient(c)
       \/ GetGradioClientResume(c)
       \/ ClientAwaited(c)
  \/ \E shape \in {"connect", "function", "unsupported", "failed"} : ImportSettles(shape)
  \/ \E n \in 1..NClientCalls, ok \in BOOLEAN : ConnectSettles(n, ok)

SpecClient == InitClient /\ [][NextClient]_vars

\* the offline adapter on a stream of several chunks
InitStream == InitWith(NStreamCalls)

NextStream ==
  \E c \in 1..NStreamCalls :
    \/ Start(c, "vosk")
    \/ \E built \in BOOLEAN, exit \in {"ends", "returns"} : VoskStart(c, built, exit)
    \/ \E made \in BOOLEAN : VoskRecognizer(c, made)
    \/ \E accepted \in BOOLEAN, after \in {"crash", "stall", "flow"} :
         StreamDataUpTo(c, accepted, after, MaxStreamChunks)
    \/ \E final \in FinalResults : StreamEnd(c, final)
    \/ StreamError(c)

SpecStream == InitStream /\ [][NextStream]_vars

\* ------------------------------------- the synchronous functions on their own
Mid == <<"m", "i", "d">>
Medium == <<"m", "e", "d", "i", "u", "m">>
LargeV2 == <<"l", "a", "r", "g", "e", "-", "v", "2">>

\* i blanks, w, j blanks
Pad(w, i, j) == [k \in 1..i |-> " "] \o w \o [k \in 1..j |-> " "]

\* the names normalizeWhisperModel is given: options.model, config.whisperModel
ModelWords ==
  {<<>>, Mid, <<"M", "I", "D">>, <<"M", "i", "d">>, Medium, Base,
   <<"l", "a", "r", "g", "e", "_", "v", "2">>, <<"l", "a", "r", "g", "e", "v", "2">>,
   <<"L", "A", "R", "G", "E", "_", "V", "2">>, LargeV2, <<"\t">>}
ModelNames ==
  {Undef, Null, Num(0), Num(7), Bool(FALSE), Bool(TRUE)}
    \cup {Str(Pad(w, i, j)) : w \in ModelWords, i \in 0..MaxPad, j \in 0..MaxPad}

\* fn(arg) was evaluated and returned out; a behaviour of SpecFn applies one
\* function to one argument
Applied(fn, arg, out) == [fn |-> fn, arg |-> arg, out |-> out]

\* what a synchronous function leaves alone
Process == <<calls, model, modelsBuilt, exited, env, gradio>>

ApplyNormalizeWhisperModel ==
  /\ applied = NotApplied
  /\ \E modelName \in ModelNames :
       applied' = Applied("normalizeWhisperModel", modelName, normalizeWhisperModel(modelName))
  /\ UNCHANGED Process

\* the texts stripSrt is given: an output file's body, extractWhisperText's result
SrtStart ==
  <<"0", "0", ":", "0", "0", ":", "0", "1", ",", "0", "0", "0">>
SrtEnd ==
  <<"0", "0", ":", "0", "0", ":", "0", "2", ",", "0", "0", "0">>
Arrow ==
  <<"-", "-", ">">>
Stamp ==
  <<"1", "2", "3", "4", "5", "6", "7", "8", "9", "0", "-", "1", "2", "3",
  "4", "5", "6">>

\* ls[1], "\n", ls[2], "\n", ...: the lines of a text
RECURSIVE Lines(_)
Lines(ls) ==
  IF ls = <<>> THEN <<>>
  ELSE Head(ls) \o (IF Len(ls) > 1 THEN <<"\n">> \o Lines(Tail(ls)) ELSE <<>>)

SrtWords ==
  {<<>>, Hello, Ok, <<"7">>,
   Lines(<<<<"1">>, SrtStart \o <<" ">> \o Arrow \o <<" ">> \o SrtEnd, Hello, <<>>,
           <<"2">>, SrtStart \o <<" ">> \o Arrow \o <<" ">> \o SrtEnd, Ok, <<>>>>),
   Lines(<<Hello, <<"\r">>, Ok \o <<"\r">>>>),
   Lines(<<SrtStart, Arrow, SrtEnd>>),
   Lines(<<SrtStart \o <<" ">> \o Arrow, SrtEnd, Hello>>),
   Stamp \o <<" ">> \o Hello,
   Stamp \o <<" ">> \o Stamp \o <<" ">> \o Hello,
   Lines(<<Stamp, Hello>>),
   Lines(<<Hello, Stamp \o Ok>>),
   Lines(<<<<"D", "o", "n", "e">>, <<"i", "n">>, <<"3">>>>),
   Lines(<<DoneIn \o <<"3">>, Separator, Ok>>),
   Lines(<<<<"1">>, <<"2">>, Hello, <<"3">>>>)}
SrtTexts == {Pad(w, i, j) : w \in SrtWords, i \in 0..MaxPad, j \in 0..MaxPad}

ApplyStripSrt ==
  /\ applied = NotApplied
  /\ \E text \in SrtTexts : applied' = Applied("stripSrt", text, stripSrt(text))
  /\ UNCHANGED Process

\* the results extractWhisperText is given: a parsed event payload
Results ==
  {Undef, Null, Str(<<>>), Num(0), Bool(FALSE), Num(7), Bool(TRUE),
   Arr(<<>>), Arr(<<Null>>),
   Arr(<<Obj([text |-> Str(PaddedOk)])>>),
   Arr(<<Obj([text |-> Str(Hello)]), Str(Ok)>>),
   Arr(<<Str(PaddedOk), Str(Hello)>>),
   Arr(<<Obj([other |-> Str(Ok)])>>),
   Arr(<<Obj([text |-> Num(7)])>>),
   Arr(<<Num(2), Arr(<<Str(Final)>>)>>),
   Obj([data |-> Arr(<<Str(PaddedOk)>>)]),
   Obj([data |-> Arr(<<Str(Hello)>>), text |-> Str(Ok)]),
   Obj([data |-> Arr(<<>>), text |-> Str(Ok)]),
   Obj([data |-> Obj([data |-> Arr(<<Str(PaddedOk)>>)])]),
   Obj([data |-> Obj([data |-> Arr(<<Str(Hello)>>), text |-> Str(Ok)])]),
   Str(PaddedOk), Str(Hello), Str(OutPath),
   Obj([text |-> Str(PaddedOk)]),
   Obj([text |-> Str(Hello), transcription |-> Str(Ok)]),
   Obj([transcription |-> Str(PaddedOk)]),
   Obj([transcription |-> Str(Hello), data |-> Obj([text |-> Str(Ok)])]),
   Obj([data |-> Obj([text |-> Str(PaddedOk)])]),
   Obj([data |-> Obj([text |-> Str(Hello)]), outputPath |-> Str(OutPath)]),
   Obj([outputPath |-> Str(OutPath)]),
   Obj([outputPath |-> Str(Hello)]),
   Obj([outputPath |-> Num(7)]),
   Obj([text |-> Num(7)]),
   Obj([other |-> Str(Ok)])}

ApplyExtractWhisperText ==
  /\ applied = NotApplied
  /\ \E result \in Results :
       applied' = Applied("extractWhisperText", result, extractWhisperText(Files, result))
  /\ UNCHANGED Process

\* the devices normalizeGradioDevice is given: "gpu" and "cuda" in every
\* letter case, and other values
GpuSpellings ==
  {<<a, b, c>> : a \in {"g", "G"}, b \in {"p", "P"}, c \in {"u", "U"}}
    \cup {<<a, b, c, d>> : a \in {"c", "C"}, b \in {"u", "U"}, c \in {"d", "D"}, d \in {"a", "A"}}
DeviceWords ==
  GpuSpellings \cup {<<>>, <<"c", "p", "u">>, <<"C", "P", "U">>, <<"t", "p", "u">>,
                     <<"g", "p", "u", "s">>, <<"c", "u", "d">>}
DeviceNames ==
  {Undef, Null, Num(0), Num(7), Bool(FALSE), Bool(TRUE)}
    \cup {Str(Pad(w, i, j)) : w \in DeviceWords, i \in 0..MaxPad, j \in 0..MaxPad}

ApplyNormalizeGradioDevice ==
  /\ applied = NotApplied
  /\ \E device \in DeviceNames :
       applied' = Applied("normalizeGradioDevice", device, normalizeGradioDevice(device))
  /\ UNCHANGED Process

\* the options of a call, a field that is absent reading undefined, and the
\* configuration's whisperModel and whisperDevice
OptionSets ==
  [model : {Undef, Str(<<"M", "I", "D">>)},
   device : {Undef, Str(<<>>), Str(<<"G", "P", "U">>), Str(<<"C", "u", "d", "a">>),
             Str(<<"t", "p", "u">>)},
   fileFormat : {Undef, Str(<<"s", "r", "t">>)},
   language : {Undef, Str(<<"e", "n">>)},
   computeType : {Undef, Str(<<"i", "n", "t", "8">>)},
   initialPrompt : {Undef, Str(Hello)},
   prefix : {Undef, Str(Ok)},
   maxNewTokens : {Undef, Num(0), Num(7)},
   hallucinationSilenceThreshold : {Undef, Num(0)},
   hotwords : {Undef, Str(Hi)}]
ConfigSets ==
  [whisperModel : {Undef, Str(Medium)},
   whisperDevice : {Undef, Str(<<"g", "p", "u">>)}]

ApplyTranscribeData ==
  /\ applied = NotApplied
  /\ \E options \in OptionSets, config \in ConfigSets, uploadPath \in Tokens :
       applied' = Applied("data", [options |-> options, config |-> config,
                                   uploadPath |-> uploadPath],
                          TranscribeData(Obj(options), Obj(config), uploadPath))
  /\ UNCHANGED Process

InitFn ==
  /\ calls = <<>>
  /\ model = 0
  /\ modelsBuilt = 0
  /\ exited = FALSE
  /\ env = [apiUrl |-> TRUE, modelDir |-> TRUE]
  /\ gradio = GradioNull
  /\ applied = NotApplied

NextFn ==
  \/ ApplyNormalizeWhisperModel
  \/ ApplyStripSrt
  \/ ApplyExtractWhisperText
  \/ ApplyNormalizeGradioDevice
  \/ ApplyTranscribeData

SpecFn == InitFn /\ [][NextFn]_vars

\* ------------------------------------------------------------------ claims
Chain == <<"primary", "batch", "vosk">>
Orchestrated == {c \in DOMAIN calls : calls[c].entry = "fallback"}

\* backend b of call record r returned without throwing
Returned(r, b) == \E i \in DOMAIN r.bres : r.bres[i].b = b /\ r.bres[i].ok
\* backend b of call record r threw
Threw(r, b) == \E i \in DOMAIN r.bres : r.bres[i].b = b /\ ~r.bres[i].ok

\* the operations of call record r that belong to the Remote Batch backend
BatchIo(r) ==
  SelectSeq(r.io, LAMBDA x : x.op \in {"readFile", "upload", "call", "poll", "fetchOutput"})
\* its three protocol requests
ProtocolIo(r) == SelectSeq(r.io, LAMBDA x : x.op \in {"upload", "call", "poll"})

\* C1: an orchestrated call attempts the backends in the order Primary,
\* Remote Batch, Offline; an attempt begins only after every earlier one has
\* settled by throwing, so at most one backend is in flight; and the call
\* resolves to the value of the first backend that returns.
C1_FallbackOrder ==
  \A c \in Orchestrated :
    LET r == calls[c]
    IN  /\ Len(r.attempts) <= 3
        /\ r.attempts = SubSeq(Chain, 1, Len(r.attempts))
        /\ Cardinality(r.running) <= 1
        /\ Len(r.bres) <= Len(r.attempts)
        /\ Len(r.attempts) <= Len(r.bres) + 1
        /\ \A i \in DOMAIN r.bres :
             /\ r.bres[i].b = r.attempts[i]
             /\ (i < Len(r.attempts) => ~r.bres[i].ok)
             /\ (r.bres[i].ok => r.outcome = Resolved(r.bres[i].val))
        /\ (r.outcome.kind = "resolved" => r.bres # <<>> /\ r.bres[Len(r.bres)].ok)

\* Primary threw, Remote Batch threw, Offline returned "hello": "hello"
C1_Witness ==
  \E c \in Orchestrated :
    /\ calls[c].attempts = Chain
    /\ Threw(calls[c], "primary") /\ Threw(calls[c], "batch")
    /\ Returned(calls[c], "vosk")
    /\ calls[c].outcome = Resolved(Str(Hello))

\* C2: in an orchestrated call, once Primary has returned neither Remote
\* Batch nor Offline is entered, and once Remote Batch has returned Offline
\* is not entered: the call issues no batch request, evaluates no
\* `new vosk.Model`, and makes no recognizer.
C2_ShortCircuit ==
  \A c \in Orchestrated :
    LET r == calls[c]
        offlineUntouched ==
          /\ \A i \in DOMAIN r.attempts : r.attempts[i] # "vosk"
          /\ r.news = 0 /\ r.smodel = 0 /\ r.sess = "none" /\ r.frees = 0
    IN  /\ Returned(r, "primary") =>
             /\ r.attempts = <<"primary">>
             /\ BatchIo(r) = <<>>
             /\ offlineUntouched
        /\ Returned(r, "batch") => offlineUntouched

C2_Witness ==
  \E c \in Orchestrated :
    /\ Returned(calls[c], "primary")
    /\ calls[c].outcome = Resolved(Str(Ok))
    /\ calls[c].pc = "done"

VoskErrors == {"modelLoad", "recognizer", "decode", "typeError", "stream"}

\* C3: an orchestrated call rejects only when Primary, Remote Batch and
\* Offline have all thrown, and then with Offline's error; a call that is
\* over has either resolved or rejected, and one that is not is pending.
C3_RejectsOnlyWithOfflineError ==
  \A c \in Orchestrated :
    LET r == calls[c]
    IN  /\ r.outcome.kind = "rejected" =>
             /\ r.attempts = Chain
             /\ Len(r.bres) = 3
             /\ \A i \in 1..3 : ~r.bres[i].ok
             /\ r.outcome.err \in VoskErrors
        /\ (r.pc = "done") = (r.outcome.kind \in {"resolved", "rejected"})
        /\ r.outcome.kind \in {"pending", "resolved", "rejected"}

C3_Witness ==
  \E c \in Orchestrated :
    /\ calls[c].outcome = Rejected("stream")
    /\ Threw(calls[c], "primary") /\ Threw(calls[c], "batch") /\ Threw(calls[c], "vosk")

\* an empty string, or the Offline backend's `false`
EmptyResult(v) == v = Str(<<>>) \/ v = Bool(FALSE)

\* C4: in an orchestrated call a backend that returns an empty result (the
\* empty string, or Offline's no-speech `false`) gives the call's result:
\* the call resolves to that value and no backend is attempted after it.
C4_EmptyResultIsFinal ==
  \A c \in Orchestrated :
    LET r == calls[c]
    IN  \A i \in DOMAIN r.bres :
          (r.bres[i].ok /\ EmptyResult(r.bres[i].val)) =>
            /\ r.outcome = Resolved(r.bres[i].val)
            /\ Len(r.attempts) = i
            /\ r.running = {}
            /\ r.pc = "done"

\* Remote Batch returned the empty string in an orchestrated call
C4_Witness ==
  \E c \in Orchestrated :
    /\ calls[c].bres = <<[b |-> "primary", ok |-> FALSE],
                         [b |-> "batch", ok |-> TRUE, val |-> Str(<<>>)]>>
    /\ calls[c].outcome = Resolved(Str(<<>>))

Attempted(r, b) == \E i \in DOMAIN r.attempts : r.attempts[i] = b
Ops(io) == [i \in DOMAIN io |-> io[i].op]

\* C9: a call issues the requests of the batch protocol in the order upload,
\* call, poll, each at most once; a request is issued only when every
\* earlier one came back 2xx with its field, the call request carrying the
\* upload's path token and the poll the call's event id; and after an answer
\* that is not such, the backend has thrown and nothing more was issued.
C9_ProtocolOrder ==
  \A c \in DOMAIN calls :
    LET r == calls[c]
        p == ProtocolIo(r)
    IN  /\ Len(p) <= 3
        /\ Ops(p) = SubSeq(<<"upload", "call", "poll">>, 1, Len(p))
        /\ Len(r.answers) <= Len(p)
        /\ Len(p) <= Len(r.answers) + 1
        /\ \A i \in DOMAIN r.answers :
             /\ (i < Len(p) => r.answers[i])
             /\ (~r.answers[i] =>
                   /\ Threw(r, "batch")
                   /\ Len(p) = i
                   /\ \A j \in DOMAIN r.io : r.io[j].op # "fetchOutput")
        /\ (Len(p) >= 2 => r.tok \in Tokens /\ p[2].arg = r.tok)
        /\ (Len(p) >= 3 => r.eid \in EventIds /\ p[3].arg = r.eid)

\* all three requests were issued and the backend returned
C9_Witness ==
  \E c \in DOMAIN calls :
    /\ Ops(ProtocolIo(calls[c])) = <<"upload", "call", "poll">>
    /\ calls[c].answers = <<TRUE, TRUE, TRUE>>
    /\ Returned(calls[c], "batch")

\* C10: with config.whisperApiUrl unset, transcribeWithWhisper throws the
\* configuration error having read no file and sent no request; called
\* directly it rejects with that error, and in an orchestrated call the
\* Offline backend is what comes next.
C10_ConfigErrorFirst ==
  ~env.apiUrl =>
    \A c \in DOMAIN calls :
      LET r == calls[c]
      IN  /\ BatchIo(r) = <<>>
          /\ r.answers = <<>>
          /\ (Attempted(r, "batch") => Threw(r, "batch") /\ ~Returned(r, "batch"))
          /\ (r.entry = "whisper" /\ Attempted(r, "batch") => r.outcome = Rejected("config"))
          /\ (r.entry = "fallback" /\ Attempted(r, "batch") =>
                r.pc = "vStart" \/ Attempted(r, "vosk"))

\* the URL is unset and an orchestrated call has gone on to Offline
C10_Witness ==
  /\ ~env.apiUrl
  /\ \E c \in Orchestrated : calls[c].attempts = Chain /\ calls[c].sess = "open"

\* ----------------------------------------------- claims on the offline adapter
\* C5: a call of transcribeWithVosk that has made a recognizer and has
\* resolved or rejected has called rec.free() exactly once, and no call
\* calls it twice.
C5_FreedExactlyOnce ==
  \A c \in DOMAIN calls :
    LET r == calls[c]
    IN  /\ r.frees <= 1
        /\ (r.sess # "none" /\ r.outcome.kind # "pending" => r.frees = 1)

\* C6: when acceptWaveform has thrown in the data handler and the call can
\* take no further step, rec.free() has been called exactly once and the
\* call has rejected.
C6_MidStreamErrorSurfaced ==
  \A c \in DOMAIN calls :
    LET r == calls[c]
    IN  (r.dropped /\ (exited \/ r.pc \in {"vStalled", "done"})) =>
          /\ r.frees = 1
          /\ r.outcome.kind = "rejected"

\* C7: the process builds at most one vosk.Model, and every recognizer is
\* made from that instance.
C7_ModelLoadedOnce ==
  /\ modelsBuilt <= 1
  /\ \A c \in DOMAIN calls :
       calls[c].sess # "none" => calls[c].smodel = 1 /\ model = 1

\* two calls whose first use of the model overlapped both hold a recognizer
C7_Witness ==
  \E c, d \in DOMAIN calls :
    /\ c # d
    /\ calls[c].pc = "vStream" /\ calls[d].pc = "vStream"
    /\ calls[c].news = 1 /\ calls[d].news = 0

\* C8: a call that has invoked process.exit (MODEL_PATH missing) gets no
\* model from `new vosk.Model`, makes no recognizer and resolves to nothing.
C8_ExitEndsAttempt ==
  \A c \in DOMAIN calls :
    LET r == calls[c]
    IN  r.hooked => r.smodel = 0 /\ r.sess = "none" /\ r.outcome.kind # "resolved"

\* v has a field f holding a string
HasText(v, f) == v.t = "obj" /\ f \in DOMAIN v.o /\ v.o[f].t = "str"

\* the text of the first alternative of a final result, "" when it has none
AlternativeText(v) ==
  IF /\ v.t = "obj" /\ "alternatives" \in DOMAIN v.o
     /\ v.o.alternatives.t = "arr" /\ v.o.alternatives.a # <<>>
     /\ HasText(v.o.alternatives.a[1], "text")
  THEN v.o.alternatives.a[1].o.text.s
  ELSE <<>>

\* C17: when the stream of a transcribeWithVosk call ends and
\* rec.finalResult() returns, the call resolves: to the trimmed text of the
\* first alternative when that is not empty, to `false` otherwise, and never
\* to the empty string; it does not reject.
C17_ResolvesTextOrSentinel ==
  [][\A c \in 1..NVoskCalls : \A final \in FinalResults :
       (StreamEnd(c, final) /\ ~final.throws) =>
         LET r == calls'[c]
             text == Trim(AlternativeText(final.val))
         IN  /\ r.outcome.kind = "resolved"
             /\ r.outcome.val # Str(<<>>)
             /\ r.outcome.val = IF text # <<>> THEN Str(text) ELSE Bool(FALSE)]_vars

\* the chunk numbers call record r gave to acceptWaveform, in order
Submitted(r) ==
  SelectSeq(r.fed, LAMBDA x : OpOf(x) = "accept")

\* C20: a transcribeWithVosk call gives the chunks to the recognizer in the
\* order the stream delivered them, one submission per chunk; it asks for the
\* final result only after the last chunk was submitted; and it neither
\* submits a chunk nor asks for the final result once it has released the
\* session.
C20_ChunksInOrder ==
  \A c \in DOMAIN calls :
    LET r == calls[c]
        f == r.fed
    IN  /\ Submitted(r) = [i \in 1..r.chunks |-> i]
        /\ \A i, j \in DOMAIN f :
             (i < j /\ OpOf(f[i]) \in {"final", "free"}) =>
               OpOf(f[j]) \notin {"accept", "final"}
        /\ (r.sess = "none" => f = <<>>)

\* two chunks were submitted, then the result was asked for, then the
\* session was released
C20_Witness ==
  \E c \in DOMAIN calls :
    /\ calls[c].fed = <<SessionOp("accept", 1), SessionOp("accept", 2),
                        SessionOp("final", 0), SessionOp("free", 0)>>
    /\ calls[c].outcome = Resolved(Str(Hello))

\* ------------------------------------------- claims on the remote batch client
\* the value the backend of call record r that settled last returned
BatchValue(r) == r.bres[Len(r.bres)].val

\* the payload of the last line of a body that starts with "data:"
LastDataPayload(lines) ==
  lines[CHOOSE i \in DOMAIN lines :
          lines[i].data /\ \A j \in DOMAIN lines : j > i => ~lines[j].data].val

\* a payload of the form [n, ["text"]]
NumberedText(v) ==
  /\ v.t = "arr" /\ Len(v.a) = 2 /\ v.a[1].t = "num"
  /\ v.a[2].t = "arr" /\ Len(v.a[2].a) = 1 /\ v.a[2].a[1].t = "str"

\* C11: when the event stream is answered 2xx, the Remote Batch client
\* returns the text carried by the last `data:` line, whatever the earlier
\* lines are (`data: [1,["hi"]]` then `data: [2,["final"]]` gives "final"),
\* and it throws when the body holds no `data:` line.
C11_LastDataLineWins ==
  [][\A c \in 1..NCalls : \A resp \in PollResponses :
       (BatchPollResponse(c, resp) /\ resp.st = "ok") =>
         IF \A i \in DOMAIN resp.lines : ~resp.lines[i].data
         THEN Threw(calls'[c], "batch")
         ELSE NumberedText(LastDataPayload(resp.lines)) =>
                /\ Returned(calls'[c], "batch")
                /\ BatchValue(calls'[c]) = Str(Trim(LastDataPayload(resp.lines).a[2].a[1].s))]_vars

\* the first of the fields text, transcript, transcription that body has
FirstPresent(body) ==
  IF body.t # "obj" THEN Undef
  ELSE IF "text" \in DOMAIN body.o THEN body.o.text
  ELSE IF "transcript" \in DOMAIN body.o THEN body.o.transcript
  ELSE IF "transcription" \in DOMAIN body.o THEN body.o.transcription
  ELSE Undef

\* the HTTP requests call record r has sent to the primary service
PrimaryIo(r) == SelectSeq(r.io, LAMBDA x : x.op = "primary")

\* C15: when the primary service answers, the call has sent it one request
\* and sends no other; Primary returns only on a 2xx answer that carries
\* text, with the trimmed text of the first present of the fields text,
\* transcript, transcription, and what it returns is never the empty string;
\* on any other answer it throws and, in an orchestrated call, Remote Batch
\* is what comes next.
C15_PrimaryOneRequestNonEmpty ==
  [][\A c \in 1..NCalls : \A resp \in PrimaryResponses :
       PrimaryResponse(c, resp) =>
         LET r == calls'[c]
             carried == IF resp.st = "ok" /\ resp.json THEN FirstPresent(resp.body) ELSE Undef
         IN  /\ Len(PrimaryIo(r)) = 1
             /\ IF carried.t = "str" /\ carried.s # <<>>
                THEN Returned(r, "primary") /\ BatchValue(r) = Str(Trim(carried.s))
                ELSE Threw(r, "primary") /\ (r.entry = "fallback" => r.pc = "bStart")
             /\ (Returned(r, "primary") => BatchValue(r) # Str(<<>>))]_vars

\* the fetches of an output file in call record r
OutputIo(r) == SelectSeq(r.io, LAMBDA x : x.op = "fetchOutput")

\* a sequence whose second element is a sequence whose first entry has a url
NamesUrl(v) ==
  /\ v.t = "arr" /\ Len(v.a) >= 2
  /\ v.a[2].t = "arr" /\ v.a[2].a # <<>>
  /\ v.a[2].a[1].t = "obj" /\ "url" \in DOMAIN v.a[2].a[1].o
  /\ Truthy(v.a[2].a[1].o.url)
\* such a sequence of exactly two elements
TwoElementNamesUrl(v) == NamesUrl(v) /\ Len(v.a) = 2

\* A step obeys the rule: for the payloads that Fetched picks out, the client fetches the url once
\* and returns the cleaned body of that fetch, or throws when the fetch fails
\* (Offline is then next in an orchestrated call); for every other payload it
\* returns stripSrt(extractWhisperText(payload)) and fetches nothing.
OutputUrlRule(Fetched(_)) ==
     /\ \A c \in DOMAIN calls : \A resp \in PollResponses :
          (BatchPollResponse(c, resp) /\ GoodPoll(resp)) =>
            LET r == calls'[c]
                payload == LastDataPayload(resp.lines)
            IN  IF Fetched(payload)
                THEN /\ OutputIo(r) = <<Io("fetchOutput", payload.a[2].a[1].o.url)>>
                     /\ r.pc = "bOut" /\ r.outcome = Pending
                ELSE /\ OutputIo(r) = <<>>
                     /\ Returned(r, "batch")
                     /\ BatchValue(r) = Str(stripSrt(extractWhisperText(Files, payload)))
     /\ \A c \in DOMAIN calls : \A resp \in OutputResponses :
          BatchOutputResponse(c, resp) =>
            LET r == calls'[c]
            IN  /\ Len(OutputIo(r)) = 1
                /\ r.io = calls[c].io
                /\ IF resp.st = "ok"
                   THEN Returned(r, "batch") /\ BatchValue(r) = Str(stripSrt(resp.text))
                   ELSE Threw(r, "batch") /\ (r.entry = "fallback" => r.pc = "vStart")

\* C19 as stated: the url is fetched for a two-element payload whose second
\* element names a url, and for no other payload.
C19_OutputUrlTwoElement == [][OutputUrlRule(TwoElementNamesUrl)]_vars

\* C19: the url is fetched, once, for a payload of two or more elements
\* whose second element is a sequence whose first entry has a url, and the
\* transcript is the cleaned body of that fetch; a fetch that fails makes
\* Remote Batch throw; every other payload gives
\* stripSrt(extractWhisperText(payload)) with no request.
C19_OutputUrlFetched == [][OutputUrlRule(NamesUrl)]_vars

\* the output file was fetched and its cleaned body is the call's result
C19_Witness ==
  \E c \in DOMAIN calls :
    /\ Len(OutputIo(calls[c])) = 1
    /\ Returned(calls[c], "batch")
    /\ calls[c].outcome = Resolved(Str(Ok))

\* ------------------------------------------ claims on the synchronous functions
IsText(x) == DOMAIN x = 1..Len(x) /\ \A i \in DOMAIN x : x[i] \in STRING

\* C12: normalizeWhisperModel returns a string for every input; "MID" gives
\* "medium", "large_v2" and "largev2" give "large-v2", undefined gives
\* "base"; and normalizing what it returned gives the same string again.
C12_NormalizeStable ==
  applied.fn = "normalizeWhisperModel" =>
    /\ IsText(applied.out)
    /\ (applied.arg = Str(<<"M", "I", "D">>) => applied.out = Medium)
    /\ (applied.arg \in {Str(<<"l", "a", "r", "g", "e", "_", "v", "2">>),
                         Str(<<"l", "a", "r", "g", "e", "v", "2">>)} => applied.out = LargeV2)
    /\ (applied.arg = Undef => applied.out = Base)
    /\ normalizeWhisperModel(Str(applied.out)) = applied.out

\* C13: stripSrt is idempotent: applied to what it returned, it returns the
\* same text, also when the lines it kept, joined by blanks, start with the
\* numeric-timestamp prefix or make up an SRT time-range line.
C13_StripSrtIdempotent ==
  applied.fn = "stripSrt" => stripSrt(applied.out) = applied.out

\* v has a field f holding an array that is empty or begins with a string
HasArray(v, f) ==
  /\ v.t = "obj" /\ f \in DOMAIN v.o /\ v.o[f].t = "arr"
  /\ (v.o[f].a # <<>> => v.o[f].a[1].t = "str")
\* the string an array of strings begins with, "" for the empty array
FirstText(a) == IF a = <<>> THEN <<>> ELSE a[1].s
HasObject(v, f) == v.t = "obj" /\ f \in DOMAIN v.o /\ v.o[f].t = "obj"

\* the place of result v in the claim's list of shapes, 0 for any other shape
ShapeOf(v) ==
  CASE v.t = "arr" /\ v.a # <<>> /\ HasText(v.a[1], "text") -> 1
    [] v.t = "arr" /\ v.a # <<>> /\ (\A i \in DOMAIN v.a : v.a[i].t = "str") -> 2
    [] v.t = "arr" -> 0
    [] HasArray(v, "data") -> 3
    [] HasObject(v, "data") /\ HasArray(v.o.data, "data") -> 4
    [] v.t = "str" -> 5
    [] HasText(v, "text") -> 6
    [] HasText(v, "transcription") -> 7
    [] HasObject(v, "data") /\ HasText(v.o.data, "text") -> 8
    [] HasText(v, "outputPath") /\ v.o.outputPath.s \in DOMAIN Files -> 9
    [] OTHER -> 0

\* the text embedded in a result of shape n
EmbeddedText(v, n) ==
  CASE n = 1 -> v.a[1].o.text.s
    [] n = 2 -> v.a[1].s
    [] n = 3 -> FirstText(v.o.data.a)
    [] n = 4 -> FirstText(v.o.data.o.data.a)
    [] n = 5 -> v.s
    [] n = 6 -> v.o.text.s
    [] n = 7 -> v.o.transcription.s
    [] n = 8 -> v.o.data.o.text.s
    [] n = 9 -> Files[v.o.outputPath.s]
    [] OTHER -> <<>>

\* C14: extractWhisperText returns a string for every result: the embedded
\* text, trimmed, of the first shape of the list that the result has, and the
\* empty string for a result of no listed shape.
C14_ExtractPrecedence ==
  applied.fn = "extractWhisperText" =>
    /\ IsText(applied.out)
    /\ applied.out = Trim(EmbeddedText(applied.arg, ShapeOf(applied.arg)))

\* the device a value stands for: "cuda" for a spelling of gpu or cuda
DeviceFor(v) ==
  IF v.t = "str" /\ v.s \in GpuSpellings THEN <<"c", "u", "d", "a">> ELSE <<"c", "p", "u">>

\* the first of options.device and config.whisperDevice that is truthy
ChosenDevice(arg) ==
  IF Truthy(arg.options.device) THEN arg.options.device ELSE arg.config.whisperDevice

\* C16: normalizeGradioDevice gives "cuda" for "gpu" and "cuda" in any
\* letter case and "cpu" for every other value, the empty string and
\* undefined included; and the two device slots of the job-submission
\* payload both hold the normalized device of the call.
C16_DeviceNormalized ==
  /\ applied.fn = "normalizeGradioDevice" => applied.out = DeviceFor(applied.arg)
  /\ applied.fn = "data" =>
       /\ applied.out[46] = applied.out[51]
       /\ applied.out[46] = Str(DeviceFor(ChosenDevice(applied.arg)))

\* the caller asked for "GPU" and both slots hold "cuda"
C16_Witness ==
  /\ applied.fn = "data"
  /\ applied.arg.options.device = Str(<<"G", "P", "U">>)
  /\ applied.out[46] = Str(<<"c", "u", "d", "a">>)
  /\ applied.out[51] = Str(<<"c", "u", "d", "a">>)

\* C18: the data array of the job-submission request has exactly 53
\* elements whatever the options are, and its first element is the
\* reference to the uploaded file.
C18_DataArrayLength ==
  applied.fn = "data" =>
    /\ Len(applied.out) = 53
    /\ applied.out[1] = Arr(<<Obj([path |-> applied.arg.uploadPath,
                                   meta |-> GRADIO_FILE_META])>>)

\* --------------------------------- claims on concurrent remote batch calls
\* the job submissions of call record r, and its polls
CallIo(r) == SelectSeq(r.io, LAMBDA x : x.op = "call")
PollIo(r) == SelectSeq(r.io, LAMBDA x : x.op = "poll")

\* the path token an upload answer carries, the event id a submission answer
\* carries
TokenIn(resp) == resp.body.a[1]
EventIdIn(resp) ==
  CHOOSE v \in EventIds : \E f \in DOMAIN resp.body.o : resp.body.o[f] = v

\* In one step: a call's list of job submissions changes only when that call's
\* own upload is answered with a token, and then from none to the one
\* submission that carries this token; its list of polls changes only when
\* its own submission is answered with an event id, and then from none to
\* the one poll of this id; and the answer to one call changes no other call.
JobStep ==
  \A c \in DOMAIN calls :
    LET r == calls[c]
        n == calls'[c]
    IN  /\ CallIo(n) # CallIo(r) =>
              /\ CallIo(r) = <<>>
              /\ \E resp \in UploadResponses :
                    /\ GoodUpload(resp) /\ BatchUploadResponse(c, resp)
                    /\ CallIo(n) = <<Io("call", TokenIn(resp))>>
        /\ PollIo(n) # PollIo(r) =>
              /\ PollIo(r) = <<>>
              /\ Len(CallIo(r)) = 1 /\ CallIo(n) = CallIo(r)
              /\ \E resp \in CallResponses :
                    /\ GoodCall(resp) /\ BatchCallResponse(c, resp)
                    /\ PollIo(n) = <<Io("poll", EventIdIn(resp))>>
        /\ \A resp \in UploadResponses :
              (GoodUpload(resp) /\ BatchUploadResponse(c, resp)) =>
                CallIo(n) = <<Io("call", TokenIn(resp))>>
        /\ \A resp \in CallResponses :
              (GoodCall(resp) /\ BatchCallResponse(c, resp)) =>
                PollIo(n) = <<Io("poll", EventIdIn(resp))>>

\* C21: under any interleaving of concurrent transcribeWithWhisper calls, the
\* path token a call's upload returned is submitted in exactly one job
\* submission, that of the same call, and the event id a call polls is the
\* one its own job submission returned: no step of one call puts a token or
\* an event id into a request of another.
C21_TokensStayInCall == [][JobStep]_vars

\* two calls are in flight at once, each polling its own event id after
\* having submitted its own token, the two tokens and ids being different
C21_Witness ==
  \E c, d \in DOMAIN calls :
    /\ calls[c].pc = "bPoll" /\ calls[d].pc = "bPoll"
    /\ calls[c].tok # calls[d].tok /\ calls[c].eid # calls[d].eid
    /\ CallIo(calls[c]) = <<Io("call", calls[c].tok)>>
    /\ CallIo(calls[d]) = <<Io("call", calls[d].tok)>>
    /\ PollIo(calls[c]) = <<Io("poll", calls[c].eid)>>
    /\ PollIo(calls[d]) = <<Io("poll", calls[d].eid)>>

\* ------------------------------ claims on the older client-library variant
\* C22: the process-wide remote client is connected at most once: however
\* concurrent first calls of getGradioClient interleave, connect is invoked at
\* most one time and every caller is given the same client.
C22_ConnectedAtMostOnce ==
  /\ Len(gradio.clients) <= 1
  /\ \A c, d \in DOMAIN calls :
       (calls[c].got # 0 /\ calls[d].got # 0) => calls[c].got = calls[d].got

====
